---- MODULE Spec2Model ----
(***************************************************************************)
(* Model of proyectgofinal/main2.py: the process scheduling simulator.     *)
(* main() loads a list of processes and a quantum, then runs round_robin,  *)
(* fifo and lifo in that order on the same input list.  Every iteration of *)
(* the three simulation loops is one step of the model.                    *)
(*                                                                         *)
(* Python lists are 0-based: cola and indice hold Python indices, and      *)
(* At(s, i) reads the element Python writes s[i].                          *)
(***************************************************************************)
EXTENDS Integers, Sequences, FiniteSets, TLC

\* Bounds of the inputs that are explored.
MaxN == 3
MaxArr == 2
MaxBurst == 2
MaxQ == 2
\* Slices explored when the quantum is not positive (the loop never ends).
MaxBadSlices == 4
\* Length of the lists explored with values the loader does not reject:
\* arrivals from MinArr and bursts from MinBurst, both below the valid range.
MaxNLibre == 2
MinArr == 0 - 1
MinBurst == 0 - 1
\* Idle ticks explored once round_robin has admitted every process and can
\* finish none of those left (the loop never ends).
MaxOcioso == 3

VARIABLES
    procesos,           \* main: the list returned by cargar_procesos
    quantum,            \* main: the quantum read from the user
    pc,                 \* position in main and in the running algorithm
    resultados,         \* the running algorithm's copy of the records
    tiempos_restantes,  \* round_robin: remaining time per process
    reloj,              \* the running algorithm's clock
    completados,        \* the running algorithm's count of finished processes
    cola,               \* round_robin: ready queue of indices
    indice,             \* round_robin: admission cursor
    rr_resultados,      \* main: result of round_robin
    fifo_resultados,    \* main: result of fifo
    lifo_resultados,    \* main: result of lifo
    \* History of the current run, read by the properties only.
    orden,              \* list positions (1-based) in the order they got the CPU
    inicios,            \* the clock value at which each of those runs began
    ocioso,             \* time the clock advanced with nothing running
    corte,              \* round_robin: the cursor when the last slice began
    duraciones,         \* the length of each of the runs in orden
    previo,             \* the kind of the last step: call, admit, idle or run
    finales,            \* per algorithm, <<reloj, ocioso>> when it returned
    \* Python object identity.
    objetos             \* which object each element of resultados is

vars == <<procesos, quantum, pc, resultados, tiempos_restantes, reloj,
          completados, cola, indice, rr_resultados, fifo_resultados,
          lifo_resultados, orden, inicios, ocioso, corte, duraciones, previo,
          finales, objetos>>

----------------------------------------------------------------------------
\* Helpers for Python values.

At(s, i) == s[i + 1]

Min(a, b) == IF a <= b THEN a ELSE b

RECURSIVE GCD(_, _)
GCD(a, b) == IF b = 0 THEN a ELSE GCD(b, a % b)

\* The quotient a / b of two integers, b # 0, as a fraction in lowest terms
\* with a positive denominator.
Div(a, b) ==
    LET s == IF b < 0 THEN 0 - 1 ELSE 1
        aa == IF a < 0 THEN 0 - a ELSE a
        bb == IF b < 0 THEN 0 - b ELSE b
        g == GCD(aa, bb)
    IN  <<(s * a) \div g, bb \div g>>

Ids == <<"A", "B", "C", "D", "E", "F">>

\* class Proceso: the constructor.
Proceso(id_proceso, tiempo_llegada, tiempo_ejecucion) ==
    [id |-> id_proceso, ti |-> tiempo_llegada, t |-> tiempo_ejecucion,
     tf |-> 0, T |-> 0, E |-> 0, I |-> <<0, 1>>,
     tiempo_restante |-> tiempo_ejecucion]

\* resultados = [Proceso(p.id, p.ti, p.t) for p in procesos]
Copia(ps) == [k \in 1..Len(ps) |-> Proceso(ps[k].id, ps[k].ti, ps[k].t)]

\* Objects are numbered: 1..Len(ps) are the records of the caller's list ps,
\* in order.
\* CopiaObjetos for resultados = list(procesos): the same objects in a new list.
CopiaObjetosCompartidos(ps) == [k \in 1..Len(ps) |-> k]

\* The objects of the copy: each Proceso(...) call makes a new object.
CopiaObjetos(ps) == [k \in 1..Len(ps) |-> Len(ps) + k]

\* The caller's list ps after the attributes of object obj were assigned:
\* it changes when obj is one of its records.
Escribir(ps, obj, nuevo) ==
    IF obj \in 1..Len(ps) THEN [ps EXCEPT ![obj] = nuevo] ELSE ps

----------------------------------------------------------------------------
\* The inputs.

Quanta == {0 - 1, 0} \cup (1..MaxQ)

\* A list of processes from its (arrival, burst) pairs, labelled in order.
Lista(pares) ==
    [k \in 1..Len(pares) |-> Proceso(Ids[k], pares[k][1], pares[k][2])]

\* The worked examples: one process; two without overlap; two arriving
\* together; two sharing the CPU under a quantum of 2.
Escenarios ==
    { <<<<0, 5>>>>,
      <<<<0, 3>>, <<5, 2>>>>,
      <<<<0, 3>>, <<0, 2>>>>,
      <<<<0, 5>>, <<1, 3>>>> }

\* cargar_procesos returns a non-empty list of Proceso(id, int(...), int(...))
\* in the order of the file: it rejects no arrival and no burst, so a list may
\* hold an arrival < 0 or a burst <= 0.
Entradas ==
    { Lista(pares) :
        pares \in Escenarios \cup
                  UNION { [1..n -> (0..MaxArr) \X (1..MaxBurst)] : n \in 1..MaxN } \cup
                  UNION { [1..n -> (MinArr..MaxArr) \X (MinBurst..MaxBurst)] :
                            n \in 1..MaxNLibre } }

\* Every burst of the list is positive.
RafagasPositivas(ps) == \A k \in 1..Len(ps) : ps[k].t > 0

\* The lists the spec calls valid: arrival >= 0 and burst > 0 throughout.
Validos(ps) == RafagasPositivas(ps) /\ \A k \in 1..Len(ps) : ps[k].ti >= 0

----------------------------------------------------------------------------
\* fifo and lifo.

Pendiente(p) == p.tf = 0

\* FifoSeleccion taking the ready process that arrived first.
FifoSeleccionPorLlegada(res, clk) ==
    LET listos == { k \in 1..Len(res) : Pendiente(res[k]) /\ res[k].ti <= clk }
    IN  IF listos = {} THEN 0
        ELSE CHOOSE k \in listos :
                \A j \in listos : \/ res[k].ti < res[j].ti
                                  \/ res[k].ti = res[j].ti /\ k <= j

\* for proc in resultados: if not proc.tf and proc.ti <= reloj: ... break
\* The position of proceso_actual, 0 for None.
FifoSeleccion(res, clk) ==
    LET listos == { k \in 1..Len(res) : Pendiente(res[k]) /\ res[k].ti <= clk }
    IN  IF listos = {} THEN 0
        ELSE CHOOSE k \in listos : \A j \in listos : k <= j

\* LifoSeleccion scanning the list forwards.
LifoSeleccionHaciaDelante(res, clk) ==
    LET listos == { k \in 1..Len(res) : Pendiente(res[k]) /\ res[k].ti <= clk }
    IN  IF listos = {} THEN 0
        ELSE CHOOSE k \in listos : \A j \in listos : k <= j

\* for proc in reversed(resultados): if not proc.tf and proc.ti <= reloj: ... break
LifoSeleccion(res, clk) ==
    LET listos == { k \in 1..Len(res) : Pendiente(res[k]) /\ res[k].ti <= clk }
    IN  IF listos = {} THEN 0
        ELSE CHOOSE k \in listos : \A j \in listos : k >= j

\* FifoProximaLlegada taking the minimum over every process, finished or not.
FifoProximaLlegadaTodos(res) ==
    LET llegadas == { res[k].ti : k \in 1..Len(res) }
    IN  CHOOSE m \in llegadas : \A x \in llegadas : m <= x

\* FifoProximaLlegada taking the latest arrival among the unfinished.
FifoProximaLlegadaMax(res) ==
    LET llegadas == { res[k].ti : k \in { j \in 1..Len(res) : Pendiente(res[j]) } }
    IN  CHOOSE m \in llegadas : \A x \in llegadas : m >= x

\* min(p.ti for p in resultados if not p.tf)
FifoProximaLlegada(res) ==
    LET llegadas == { res[k].ti : k \in { j \in 1..Len(res) : Pendiente(res[j]) } }
    IN  CHOOSE m \in llegadas : \A x \in llegadas : m <= x

LifoProximaLlegada(res) ==
    LET llegadas == { res[k].ti : k \in { j \in 1..Len(res) : Pendiente(res[j]) } }
    IN  CHOOSE m \in llegadas : \A x \in llegadas : m <= x

\* FifoEjecutar with the waiting time taken from the arrival, not the burst.
FifoEjecutarEsperaMal(p, clk) ==
    LET tf == clk + p.t
        T == tf - p.ti
        E == T - p.ti
    IN  [p EXCEPT !.tf = tf, !.T = T, !.E = E,
                  !.I = IF T # 0 THEN Div(p.t, T) ELSE <<0, 1>>]

\* FifoEjecutar taking the clock at the start of the run as the completion.
FifoEjecutarSinRafaga(p, clk) ==
    LET tf == clk
        T == tf - p.ti
        E == T - p.t
    IN  [p EXCEPT !.tf = tf, !.T = T, !.E = E,
                  !.I = IF T # 0 THEN Div(p.t, T) ELSE <<0, 1>>]

\* The four assignments that run proceso_actual to completion from clk.
FifoEjecutar(p, clk) ==
    LET tf == clk + p.t
        T == tf - p.ti
        E == T - p.t
    IN  [p EXCEPT !.tf = tf, !.T = T, !.E = E,
                  !.I = IF T # 0 THEN Div(p.t, T) ELSE <<0, 1>>]

\* LifoEjecutar starting the process at its arrival instead of at the clock.
LifoEjecutarDesdeLlegada(p, clk) ==
    LET tf == p.ti + p.t
        T == tf - p.ti
        E == T - p.t
    IN  [p EXCEPT !.tf = tf, !.T = T, !.E = E,
                  !.I = IF T # 0 THEN Div(p.t, T) ELSE <<0, 1>>]

LifoEjecutar(p, clk) ==
    LET tf == clk + p.t
        T == tf - p.ti
        E == T - p.t
    IN  [p EXCEPT !.tf = tf, !.T = T, !.E = E,
                  !.I = IF T # 0 THEN Div(p.t, T) ELSE <<0, 1>>]

----------------------------------------------------------------------------
\* round_robin.

\* RRLlegado without the test of the arrival time.
RRLlegadoSinReloj(res, i, clk) == i < Len(res)

\* The condition of the admission loop.
RRLlegado(res, i, clk) == i < Len(res) /\ At(res, i).ti <= clk

\* RRAdmitir putting the new arrival at the head of the queue.
RRAdmitirCabeza(c, tr, i) == IF At(tr, i) > 0 THEN <<i>> \o c ELSE c

\* if tiempos_restantes[indice] > 0: cola.append(indice)
RRAdmitir(c, tr, i) == IF At(tr, i) > 0 THEN Append(c, i) ELSE c

\* RRTiempoEjecucion ignoring the quantum: the process runs all it has left.
RRTiempoEjecucionSinQuantum(q, restante) == restante

\* RRTiempoEjecucion with a slice of at least one unit.
RRTiempoEjecucionMinimoUno(q, restante) == IF q < 1 THEN Min(1, restante) ELSE Min(q, restante)

\* tiempo_ejecucion = min(quantum, tiempos_restantes[actual])
RRTiempoEjecucion(q, restante) == Min(q, restante)

\* The four assignments made when the process at clk has no time left.
RRFinalizar(p, clk) ==
    LET tf == clk
        T == tf - p.ti
        E == T - p.t
    IN  [p EXCEPT !.tf = tf, !.T = T, !.E = E,
                  !.I = IF T # 0 THEN Div(p.t, T) ELSE <<0, 1>>]

\* RRReencolar putting the process back at the head of the queue.
RRReencolarCabeza(c, actual) == <<actual>> \o c

\* cola.append(actual), after cola.pop(0) took it from the head.
RRReencolar(c, actual) == Append(c, actual)

----------------------------------------------------------------------------
\* The state after cargar_procesos and the quantum prompt.

Init ==
    /\ procesos \in Entradas
    /\ quantum \in Quanta
    /\ pc = "rr_call"
    /\ resultados = <<>>
    /\ tiempos_restantes = <<>>
    /\ reloj = 0
    /\ completados = 0
    /\ cola = <<>>
    /\ indice = 0
    /\ rr_resultados = <<>>
    /\ fifo_resultados = <<>>
    /\ lifo_resultados = <<>>
    /\ orden = <<>>
    /\ inicios = <<>>
    /\ ocioso = 0
    /\ corte = 0
    /\ duraciones = <<>>
    /\ previo = "call"
    /\ finales = [rr |-> <<>>, fifo |-> <<>>, lifo |-> <<>>]
    /\ objetos = <<>>

main_vars == <<quantum, rr_resultados, fifo_resultados, lifo_resultados>>
rr_vars == <<tiempos_restantes, cola, indice, corte>>

\* The entry of an algorithm: copy the list, reset the locals.
Entrar(siguiente) ==
    /\ pc' = siguiente
    /\ resultados' = Copia(procesos)
    /\ objetos' = CopiaObjetos(procesos)
    /\ reloj' = 0
    /\ completados' = 0
    /\ orden' = <<>>
    /\ inicios' = <<>>
    /\ duraciones' = <<>>
    /\ ocioso' = 0
    /\ previo' = "call"
    /\ UNCHANGED <<procesos, finales>>

RRCall ==
    /\ pc = "rr_call"
    /\ Entrar("rr")
    /\ tiempos_restantes' = [k \in 1..Len(procesos) |-> procesos[k].t]
    /\ cola' = <<>>
    /\ indice' = 0
    /\ corte' = 0
    /\ UNCHANGED main_vars

\* One turn of the admission loop.
RRAdmit ==
    /\ pc = "rr"
    /\ completados < Len(procesos)
    /\ RRLlegado(resultados, indice, reloj)
    /\ cola' = RRAdmitir(cola, tiempos_restantes, indice)
    /\ indice' = indice + 1
    /\ previo' = "admit"
    /\ UNCHANGED <<main_vars, procesos, objetos, pc, resultados,
                   tiempos_restantes, reloj, completados, orden, inicios,
                   duraciones, ocioso, corte, finales>>

\* if not cola: reloj += 1; continue
RRIdle ==
    /\ pc = "rr"
    /\ completados < Len(procesos)
    /\ ~RRLlegado(resultados, indice, reloj)
    /\ cola = <<>>
    /\ indice < Len(resultados) \/ ocioso < MaxOcioso
    /\ reloj' = reloj + 1
    /\ ocioso' = ocioso + 1
    /\ previo' = "idle"
    /\ UNCHANGED <<main_vars, rr_vars, procesos, objetos, pc, resultados,
                   completados, orden, inicios, duraciones, finales>>

\* Dequeue the head and run it for one slice.
RRRun ==
    /\ pc = "rr"
    /\ completados < Len(procesos)
    /\ ~RRLlegado(resultados, indice, reloj)
    /\ cola # <<>>
    /\ quantum > 0 \/ Len(orden) < MaxBadSlices
    /\ LET actual == Head(cola)
           tiempo_ejecucion == RRTiempoEjecucion(quantum, At(tiempos_restantes, actual))
           restante == At(tiempos_restantes, actual) - tiempo_ejecucion
       IN  /\ tiempos_restantes' = [tiempos_restantes EXCEPT ![actual + 1] = restante]
           /\ reloj' = reloj + tiempo_ejecucion
           /\ IF restante = 0
              THEN /\ resultados' = [resultados EXCEPT
                                       ![actual + 1] = RRFinalizar(@, reloj')]
                   /\ procesos' = Escribir(procesos, At(objetos, actual),
                                           At(resultados', actual))
                   /\ completados' = completados + 1
                   /\ cola' = Tail(cola)
              ELSE /\ cola' = RRReencolar(Tail(cola), actual)
                   /\ UNCHANGED <<resultados, procesos, completados>>
           /\ orden' = Append(orden, actual + 1)
           /\ inicios' = Append(inicios, reloj)
           /\ duraciones' = Append(duraciones, tiempo_ejecucion)
           /\ corte' = indice
    /\ previo' = "run"
    /\ UNCHANGED <<main_vars, objetos, pc, indice, ocioso, finales>>

RRReturn ==
    /\ pc = "rr"
    /\ ~(completados < Len(procesos))
    /\ rr_resultados' = resultados
    /\ pc' = "fifo_call"
    /\ finales' = [finales EXCEPT !.rr = <<reloj, ocioso>>]
    /\ UNCHANGED <<procesos, quantum, fifo_resultados, lifo_resultados, rr_vars,
                   objetos, resultados, reloj, completados, orden, inicios,
                   duraciones, ocioso, previo>>

FifoCall ==
    /\ pc = "fifo_call"
    /\ Entrar("fifo")
    /\ UNCHANGED <<main_vars, rr_vars>>

FifoRun ==
    /\ pc = "fifo"
    /\ completados < Len(procesos)
    /\ LET k == FifoSeleccion(resultados, reloj)
       IN  /\ k # 0
           /\ resultados' = [resultados EXCEPT ![k] = FifoEjecutar(@, reloj)]
           /\ procesos' = Escribir(procesos, objetos[k], resultados'[k])
           /\ reloj' = resultados'[k].tf
           /\ completados' = completados + 1
           /\ orden' = Append(orden, k)
           /\ inicios' = Append(inicios, reloj)
           /\ duraciones' = Append(duraciones, resultados[k].t)
    /\ previo' = "run"
    /\ UNCHANGED <<main_vars, rr_vars, objetos, pc, ocioso, finales>>

FifoIdle ==
    /\ pc = "fifo"
    /\ completados < Len(procesos)
    /\ FifoSeleccion(resultados, reloj) = 0
    /\ reloj' = FifoProximaLlegada(resultados)
    /\ ocioso' = ocioso + (reloj' - reloj)
    /\ previo' = "idle"
    /\ UNCHANGED <<main_vars, rr_vars, procesos, objetos, pc, resultados,
                   completados, orden, inicios, duraciones, finales>>

FifoReturn ==
    /\ pc = "fifo"
    /\ ~(completados < Len(procesos))
    /\ fifo_resultados' = resultados
    /\ pc' = "lifo_call"
    /\ finales' = [finales EXCEPT !.fifo = <<reloj, ocioso>>]
    /\ UNCHANGED <<procesos, quantum, rr_resultados, lifo_resultados, rr_vars,
                   objetos, resultados, reloj, completados, orden, inicios,
                   duraciones, ocioso, previo>>

LifoCall ==
    /\ pc = "lifo_call"
    /\ Entrar("lifo")
    /\ UNCHANGED <<main_vars, rr_vars>>

LifoRun ==
    /\ pc = "lifo"
    /\ completados < Len(procesos)
    /\ LET k == LifoSeleccion(resultados, reloj)
       IN  /\ k # 0
           /\ resultados' = [resultados EXCEPT ![k] = LifoEjecutar(@, reloj)]
           /\ procesos' = Escribir(procesos, objetos[k], resultados'[k])
           /\ reloj' = resultados'[k].tf
           /\ completados' = completados + 1
           /\ orden' = Append(orden, k)
           /\ inicios' = Append(inicios, reloj)
           /\ duraciones' = Append(duraciones, resultados[k].t)
    /\ previo' = "run"
    /\ UNCHANGED <<main_vars, rr_vars, objetos, pc, ocioso, finales>>

LifoIdle ==
    /\ pc = "lifo"
    /\ completados < Len(procesos)
    /\ LifoSeleccion(resultados, reloj) = 0
    /\ reloj' = LifoProximaLlegada(resultados)
    /\ ocioso' = ocioso + (reloj' - reloj)
    /\ previo' = "idle"
    /\ UNCHANGED <<main_vars, rr_vars, procesos, objetos, pc, resultados,
                   completados, orden, inicios, duraciones, finales>>

LifoReturn ==
    /\ pc = "lifo"
    /\ ~(completados < Len(procesos))
    /\ lifo_resultados' = resultados
    /\ pc' = "fin"
    /\ finales' = [finales EXCEPT !.lifo = <<reloj, ocioso>>]
    /\ UNCHANGED <<procesos, quantum, rr_resultados, fifo_resultados, rr_vars,
                   objetos, resultados, reloj, completados, orden, inicios,
                   duraciones, ocioso, previo>>

Next ==
    \/ RRCall \/ RRAdmit \/ RRIdle \/ RRRun \/ RRReturn
    \/ FifoCall \/ FifoRun \/ FifoIdle \/ FifoReturn
    \/ LifoCall \/ LifoRun \/ LifoIdle \/ LifoReturn

Spec == Init /\ [][Next]_vars

\* The program is one sequential thread: a step that can be taken is taken.
\* main started with a quantum > 0 on a list with arrival >= 0 and burst > 0
\* throughout: the runs for which termination is claimed.
InitValido == Init /\ quantum > 0 /\ Validos(procesos)

FairSpec == InitValido /\ [][Next]_vars /\ WF_vars(Next)

----------------------------------------------------------------------------
\* What the properties read.

Posiciones(res) == 1..Len(res)

\* The algorithm at pc has left its loop or is about to.
Terminado(alg) == pc = alg /\ completados = Len(procesos)

\* The index of the first occurrence of x in the sequence c, 0 if absent.
Pos(c, x) ==
    IF \E n \in 1..Len(c) : c[n] = x
    THEN CHOOSE n \in 1..Len(c) : c[n] = x /\ \A m \in 1..(n - 1) : c[m] # x
    ELSE 0

EnCola(i) == Pos(cola, i) # 0

Ordenada(ps) == \A i, j \in 1..Len(ps) : i < j => ps[i].ti <= ps[j].ti

Escenario4 == Lista(<<<<0, 5>>, <<1, 3>>>>)

MetricasExactas(res) ==
    \A k \in Posiciones(res) :
        /\ res[k].T = res[k].tf - res[k].ti
        /\ res[k].E = res[k].T - res[k].t

\* C1: for a list with arrival >= 0 and burst > 0, in the result of
\* round_robin, fifo and lifo every process has turnaround T = tf - ti and
\* waiting E = T - t exactly.
C1_MetricasExactas ==
    Validos(procesos) =>
        /\ \A alg \in {"rr", "fifo", "lifo"} :
              Terminado(alg) => MetricasExactas(resultados)
        /\ rr_resultados # <<>> => MetricasExactas(rr_resultados)
        /\ fifo_resultados # <<>> => MetricasExactas(fifo_resultados)
        /\ lifo_resultados # <<>> => MetricasExactas(lifo_resultados)

\* All three algorithms have returned and each made some process wait.
C1_Witness ==
    /\ pc = "fin"
    /\ Validos(procesos)
    /\ \E k \in Posiciones(rr_resultados) : rr_resultados[k].E > 0
    /\ \E k \in Posiciones(fifo_resultados) :
          fifo_resultados[k].E > 0 /\ fifo_resultados[k].ti > 0
    /\ \E k \in Posiciones(lifo_resultados) : lifo_resultados[k].E > 0

\* The process that ran the last slice, as a Python index, and the clock at
\* which that slice began.
UltimoP == orden[Len(orden)] - 1
UltimoInicio == inicios[Len(inicios)]

\* The admission loop has run to its end and the last process run is back in
\* the queue.
TrasAdmitir ==
    /\ pc = "rr"
    /\ quantum > 0
    /\ completados < Len(procesos)
    /\ ~RRLlegado(resultados, indice, reloj)
    /\ orden # <<>>
    /\ EnCola(UltimoP)

\* C2 as stated: a process that arrives during (or at the end of) a slice of
\* an unfinished process P is, once admitted, in the queue ahead of P, and
\* for [(A,0,5),(B,1,3)] with quantum 2 the completions are B = 7 and A = 8.
C2_LlegadasDelante ==
    /\ (TrasAdmitir /\ Validos(procesos)) =>
          \A j \in 0..(Len(resultados) - 1) :
              (j # UltimoP /\ UltimoInicio < At(resultados, j).ti
                           /\ At(resultados, j).ti <= reloj /\ EnCola(j))
              => Pos(cola, j) < Pos(cola, UltimoP)
    /\ (procesos = Escenario4 /\ quantum = 2 /\ rr_resultados # <<>>)
          => (rr_resultados[2].tf = 7 /\ rr_resultados[1].tf = 8)

\* C2 amended: the process P that was just run and is not finished goes back
\* to the tail of the queue at the end of its slice, before the next
\* admission: the processes behind P in the queue are exactly those admitted
\* after its slice began, and every process that was already waiting is ahead
\* of it.  For [(A,0,5),(B,1,3)] with quantum 2 the run order is A,A,B,A,B
\* and the completions are A = 7 and B = 8.
C2_LlegadasDetras ==
    /\ (pc = "rr" /\ quantum > 0 /\ orden # <<>> /\ EnCola(UltimoP)) =>
          \A j \in 0..(Len(resultados) - 1) :
              (j # UltimoP /\ EnCola(j))
              => (Pos(cola, j) > Pos(cola, UltimoP) <=> j >= corte)
    /\ (procesos = Escenario4 /\ quantum = 2 /\ pc = "fifo_call")
          => /\ orden = <<1, 1, 2, 1, 2>>
             /\ rr_resultados[1].tf = 7
             /\ rr_resultados[2].tf = 8

\* A process arrived during the last slice of P and was admitted behind P,
\* while another process that was already waiting is ahead of P.
C2_Witness ==
    /\ TrasAdmitir
    /\ Validos(procesos)
    /\ \E j \in 0..(Len(resultados) - 1) :
          /\ j # UltimoP
          /\ UltimoInicio < At(resultados, j).ti
          /\ At(resultados, j).ti <= reloj
          /\ EnCola(j)
          /\ Pos(cola, j) > Pos(cola, UltimoP)
    /\ \E j \in 0..(Len(resultados) - 1) :
          j # UltimoP /\ EnCola(j) /\ Pos(cola, j) < Pos(cola, UltimoP)

\* A process is ready at clk: unfinished and arrived.
Listo(res, k, clk) == Pendiente(res[k]) /\ res[k].ti <= clk

\* C3: whenever fifo runs a process, it is the ready process (unfinished,
\* arrival <= clock) with the smallest list position, whatever the arrival
\* times of the other ready processes.
C3_FifoPrimeroEnLista ==
    [][ (pc = "fifo" /\ orden' # orden) =>
          LET k == orden'[Len(orden')]
          IN  /\ orden' = Append(orden, k)
              /\ Listo(resultados, k, reloj)
              /\ \A j \in Posiciones(resultados) :
                    /\ j # k => resultados'[j] = resultados[j]
                    /\ j < k => ~Listo(resultados, j, reloj) ]_vars

\* fifo ran a process while a process listed after it, with an earlier
\* arrival, was ready too.
C3_Witness ==
    /\ pc = "fifo"
    /\ \E n \in 1..Len(orden) :
          \E j \in Posiciones(resultados) :
              /\ j > orden[n]
              /\ resultados[j].ti < resultados[orden[n]].ti
              /\ resultados[j].ti <= inicios[n]
              /\ \A m \in 1..n : orden[m] # j


\* C4: whenever lifo runs a process, it is the ready process with the
\* largest list position, and it runs to completion in that step: its
\* completion is clock + burst, the clock moves there, and no other record
\* changes.  Of two processes that both arrive at 0, the one listed last
\* is the first to run, from clock 0, and completes at its own burst time,
\* before the other when the bursts are positive.
C4_LifoUltimoEnLista ==
    /\ [][ (pc = "lifo" /\ orden' # orden) =>
             LET k == orden'[Len(orden')]
             IN  /\ orden' = Append(orden, k)
                 /\ Listo(resultados, k, reloj)
                 /\ resultados'[k].tf = reloj + resultados[k].t
                 /\ reloj' = resultados'[k].tf
                 /\ \A j \in Posiciones(resultados) :
                       /\ j # k => resultados'[j] = resultados[j]
                       /\ j > k => ~Listo(resultados, j, reloj) ]_vars
    /\ [][ pc = "lifo" =>
             \A k \in Posiciones(resultados) :
                 ~Pendiente(resultados[k]) => resultados'[k] = resultados[k] ]_vars
    /\ [](  (/\ pc = "lifo"
             /\ orden # <<>>
             /\ Len(resultados) = 2
             /\ resultados[1].ti = 0
             /\ resultados[2].ti = 0)
            => (/\ orden[1] = 2
                /\ inicios[1] = 0
                /\ resultados[2].tf = resultados[2].t
                /\ RafagasPositivas(resultados) =>
                      \/ Pendiente(resultados[1])
                      \/ resultados[2].tf < resultados[1].tf) )

\* lifo ran a process while a process listed before it was ready too, and
\* the one listed before ran later.
C4_Witness ==
    /\ pc = "lifo"
    /\ \E n \in 1..Len(orden) :
          \E j \in Posiciones(resultados) :
              /\ j < orden[n]
              /\ resultados[j].ti <= inicios[n]
              /\ \E m \in (n + 1)..Len(orden) : orden[m] = j

\* No run in the history began before the process had arrived.
NadieAntesDeLlegar ==
    \A n \in 1..Len(orden) : inicios[n] >= resultados[orden[n]].ti

CompletoTrasLlegar(res) ==
    \A k \in Posiciones(res) :
        ~Pendiente(res[k]) =>
            /\ res[k].tf >= res[k].ti + res[k].t
            /\ res[k].E >= 0
            /\ res[k].T >= res[k].t
            /\ res[k].T > 0
            /\ res[k].I = Div(res[k].t, res[k].T)

\* C5: in every algorithm (quantum > 0, arrival >= 0 and burst > 0), a
\* finished process has completion >= arrival + burst, waiting >= 0 and
\* turnaround >= burst > 0; no process runs before its arrival, and the
\* penalty index is always burst/turnaround.
C5_CompletoTrasLlegar ==
    (quantum > 0 /\ Validos(procesos)) =>
        /\ pc \in {"rr", "fifo", "lifo"} =>
              (CompletoTrasLlegar(resultados) /\ NadieAntesDeLlegar)
        /\ CompletoTrasLlegar(rr_resultados)
        /\ CompletoTrasLlegar(fifo_resultados)
        /\ CompletoTrasLlegar(lifo_resultados)

\* round_robin finished a process that arrived after time 0 and had to wait.
C5_Witness ==
    /\ pc = "rr"
    /\ quantum > 0
    /\ Validos(procesos)
    /\ \E k \in Posiciones(resultados) :
          /\ ~Pendiente(resultados[k])
          /\ resultados[k].ti > 0
          /\ resultados[k].E > 0

TodosCompletos(res) ==
    /\ Len(res) = Len(procesos)
    /\ \A k \in Posiciones(res) : res[k].tf # 0

\* All three algorithms have returned with every completion set.
FinCompleto ==
    /\ pc = "fin"
    /\ TodosCompletos(rr_resultados)
    /\ TodosCompletos(fifo_resultados)
    /\ TodosCompletos(lifo_resultados)

\* C6: main started with a quantum > 0 on a list with arrival >= 0 and
\* burst > 0 throughout (InitValido): round_robin, fifo and lifo each
\* eventually reach their terminal state, for lists in any order, and every
\* process of each result has its completion set.
C6_Termina == <>FinCompleto

\* All three have returned on a list that is not sorted by arrival.
C6_Witness ==
    /\ FinCompleto
    /\ quantum > 0
    /\ Validos(procesos)
    /\ ~Ordenada(procesos)

RECURSIVE Suma(_, _)
\* The sum of f[k] for k in 1..n.
Suma(f, n) == IF n = 0 THEN 0 ELSE f[n] + Suma(f, n - 1)

SumaRafagas == Suma([k \in 1..Len(procesos) |-> procesos[k].t], Len(procesos))

\* The time executed so far by the running algorithm: what round_robin has
\* taken off the remaining times, or the bursts of the processes fifo and
\* lifo have run.
TrabajoHecho ==
    IF pc = "rr"
    THEN Suma([k \in 1..Len(resultados) |-> resultados[k].t - tiempos_restantes[k]],
              Len(resultados))
    ELSE Suma([k \in 1..Len(resultados) |->
                  IF \E n \in 1..Len(orden) : orden[n] = k
                  THEN resultados[k].t ELSE 0],
              Len(resultados))

\* C7: at every step of every algorithm the clock equals the time executed
\* so far plus the idle time so far; at termination it equals the sum of all
\* bursts plus the total idle time.
C7_ConservacionTrabajo ==
    pc \in {"rr", "fifo", "lifo"} =>
        /\ reloj = TrabajoHecho + ocioso
        /\ completados = Len(procesos) => reloj = SumaRafagas + ocioso

Ceil(a, b) == (a + b - 1) \div b

Veces(k) == Cardinality({ n \in 1..Len(orden) : orden[n] = k })

\* C8: in round_robin with quantum > 0, a finished process was dequeued and
\* run at least ceil(burst / quantum) times.
C8_VecesMinimas ==
    (pc = "rr" /\ quantum > 0) =>
        \A k \in Posiciones(resultados) :
            ~Pendiente(resultados[k]) => Veces(k) >= Ceil(resultados[k].t, quantum)

\* A process with a burst above the quantum has finished after several runs.
C8_Witness ==
    /\ pc = "rr"
    /\ quantum > 0
    /\ \E k \in Posiciones(resultados) :
          /\ ~Pendiente(resultados[k])
          /\ resultados[k].t > quantum
          /\ Veces(k) >= 2

\* lifo has finished after idling and after making a process wait.
C7_Witness ==
    /\ Terminado("lifo")
    /\ ocioso > 0
    /\ \E k \in Posiciones(resultados) : resultados[k].E > 0

\* C9: in fifo and lifo, a process completes at arrival + burst, with no
\* waiting, when every process that ran before it completed at or before
\* its arrival; so does a single process with any arrival, and [(A,0,5)]
\* gives completion 5, turnaround 5, waiting 0, penalty index 1.
C9_SinSolapeSinEspera ==
    /\ pc \in {"fifo", "lifo"} =>
          \A n \in 1..Len(orden) :
              (\A m \in 1..(n - 1) :
                   resultados[orden[m]].tf <= resultados[orden[n]].ti)
              => (/\ resultados[orden[n]].tf
                        = resultados[orden[n]].ti + resultados[orden[n]].t
                  /\ resultados[orden[n]].E = 0)
    /\ \A res \in {fifo_resultados, lifo_resultados} :
          (Len(res) = 1 /\ res[1].ti >= 0)
          => (res[1].tf = res[1].ti + res[1].t /\ res[1].E = 0)
    /\ (procesos = Lista(<<<<0, 5>>>>) /\ fifo_resultados # <<>>) =>
          (/\ fifo_resultados[1].tf = 5
           /\ fifo_resultados[1].T = 5
           /\ fifo_resultados[1].E = 0
           /\ fifo_resultados[1].I = <<1, 1>>)

\* C10: with quantum <= 0 and every burst > 0, round_robin never reaches
\* completados = number of processes: no remaining time ever reaches 0 and
\* no process is finished.
C10_QuantumInvalidoNoTermina ==
    (quantum <= 0 /\ RafagasPositivas(procesos)) =>
        /\ pc \in {"rr_call", "rr"}
        /\ completados < Len(procesos)
        /\ rr_resultados = <<>>
        /\ pc = "rr" =>
              \A k \in Posiciones(resultados) :
                  /\ tiempos_restantes[k] >= resultados[k].t
                  /\ tiempos_restantes[k] > 0
                  /\ Pendiente(resultados[k])

\* With a negative quantum a process has been given three slices and has
\* more time left than its burst.
C10_Witness ==
    /\ pc = "rr"
    /\ quantum < 0
    /\ RafagasPositivas(procesos)
    /\ Len(orden) >= 3
    /\ \E k \in Posiciones(resultados) : tiempos_restantes[k] > resultados[k].t


\* Every record of ps is as its constructor left it.
Pristina(ps) ==
    \A k \in Posiciones(ps) : ps[k] = Proceso(ps[k].id, ps[k].ti, ps[k].t)

\* C11: each algorithm works on objects of its own: the records of the
\* caller's list never change (tf, T, E, I and tiempo_restante keep their
\* initial values), and every algorithm starts from records as the
\* constructor leaves them, whatever ran before it.
C11_EntradaIntacta ==
    /\ [][procesos' = procesos]_vars
    /\ [](/\ Pristina(procesos)
          /\ \A k \in DOMAIN objetos : objetos[k] \notin 1..Len(procesos)
          /\ (pc \in {"rr", "fifo", "lifo"} /\ previo = "call") =>
                (/\ Pristina(resultados)
                 /\ Len(resultados) = Len(procesos)
                 /\ \A k \in Posiciones(resultados) :
                       /\ resultados[k].id = procesos[k].id
                       /\ resultados[k].ti = procesos[k].ti
                       /\ resultados[k].t = procesos[k].t))

\* lifo, the third to run, has completed every process of its copy and the
\* caller's list is still as it was loaded.
C11_Witness ==
    /\ Terminado("lifo")
    /\ TodosCompletos(rr_resultados)
    /\ TodosCompletos(fifo_resultados)
    /\ TodosCompletos(resultados)
    /\ Pristina(procesos)


HayListo(res, clk) == \E k \in Posiciones(res) : Listo(res, k, clk)

\* m is the earliest arrival among the unfinished processes of res.
EsProximaLlegada(res, m) ==
    /\ \E k \in Posiciones(res) : Pendiente(res[k]) /\ res[k].ti = m
    /\ \A k \in Posiciones(res) : Pendiente(res[k]) => res[k].ti >= m

\* C13: in fifo and lifo, when no unfinished process has arrived, one step
\* moves the clock exactly to the earliest arrival among the unfinished and
\* changes no record; the step after an idle-skip is never another
\* idle-skip: it runs a process whose arrival equals the clock, which
\* therefore does not wait.
C13_SaltoOcioso ==
    /\ [][ (pc \in {"fifo", "lifo"} /\ completados < Len(procesos)
              /\ ~HayListo(resultados, reloj))
           => (/\ previo' = "idle"
               /\ pc' = pc
               /\ EsProximaLlegada(resultados, reloj')
               /\ reloj' > reloj
               /\ resultados' = resultados
               /\ completados' = completados) ]_vars
    /\ [][ (pc \in {"fifo", "lifo"} /\ pc' = pc /\ previo' = "idle")
           => ~HayListo(resultados, reloj) ]_vars
    /\ [][ (pc \in {"fifo", "lifo"} /\ previo = "idle")
           => (/\ previo' = "run"
               /\ pc' = pc
               /\ reloj = resultados[orden'[Len(orden')]].ti
               /\ inicios'[Len(inicios')] = reloj
               /\ resultados'[orden'[Len(orden')]].E = 0) ]_vars

\* fifo idled between two runs while two unfinished processes with different
\* arrivals were still to come, and the one it then ran did not wait.
C13_Witness ==
    /\ pc = "fifo"
    /\ previo = "run"
    /\ Len(orden) >= 1
    /\ LET n == Len(orden)
           k == orden[n]
       IN  /\ inicios[n] > (IF n = 1 THEN 0 ELSE inicios[n - 1] + duraciones[n - 1])
           /\ resultados[k].ti = inicios[n]
           /\ resultados[k].E = 0
           /\ \E j \in Posiciones(resultados) :
                 Pendiente(resultados[j]) /\ resultados[j].ti > resultados[k].ti


Elementos(c) == { c[n] : n \in 1..Len(c) }

\* C14: in round_robin the admission cursor only moves forward, one
\* position at a time; a process enters the queue for the first time only
\* as the process at the cursor, once it has arrived, behind those already
\* queued (a process with no time left is passed over); so first admissions
\* happen in strictly increasing list position, each process once, and a
\* process is admitted only after the cursor has passed every process
\* listed before it.
C14_AdmisionEnOrden ==
    /\ [][ (pc = "rr" /\ pc' = "rr") =>
             /\ indice' \in {indice, indice + 1}
             /\ indice' = indice + 1 =>
                   (/\ At(resultados, indice).ti <= reloj
                    /\ \/ cola' = Append(cola, indice)
                       \/ cola' = cola /\ At(tiempos_restantes, indice) <= 0
                    /\ reloj' = reloj)
             /\ indice' = indice => Elementos(cola') \subseteq Elementos(cola) ]_vars
    /\ [](pc = "rr" =>
             /\ indice \in 0..Len(resultados)
             /\ \A n, m \in 1..Len(cola) : n # m => cola[n] # cola[m]
             /\ \A j \in 0..(Len(resultados) - 1) :
                   /\ j >= indice => (~EnCola(j) /\ Veces(j + 1) = 0)
                   /\ (j < indice /\ At(tiempos_restantes, j) > 0) => EnCola(j))

\* Two processes are queued, the one listed later having arrived earlier
\* than the one listed before it, which is ahead of it in the queue.
C14_Witness ==
    /\ pc = "rr"
    /\ quantum > 0
    /\ orden = <<>>
    /\ \E i, j \in 0..(Len(resultados) - 1) :
          /\ i < j
          /\ At(resultados, j).ti < At(resultados, i).ti
          /\ EnCola(i)
          /\ EnCola(j)
          /\ Pos(cola, i) < Pos(cola, j)


\* C15: in fifo and lifo, when every burst is > 0, a record has tf # 0
\* exactly when it has been run; completados counts the records with
\* tf # 0; no process is selected twice and at termination each has been
\* selected once; a record never changes once its completion is set; and
\* whenever the idle-skip is taken some process is unfinished.
C15_CentinelaSinAmbiguedad ==
    /\ []((pc \in {"fifo", "lifo"} /\ RafagasPositivas(procesos)) =>
             /\ \A k \in Posiciones(resultados) :
                   /\ ~Pendiente(resultados[k]) <=> Veces(k) >= 1
                   /\ Veces(k) <= 1
                   /\ completados = Len(procesos) => Veces(k) = 1
             /\ completados
                   = Cardinality({ k \in Posiciones(resultados) :
                                      ~Pendiente(resultados[k]) })
             /\ (completados < Len(procesos) /\ ~HayListo(resultados, reloj))
                   => \E k \in Posiciones(resultados) : Pendiente(resultados[k]))
    /\ [][ (pc \in {"fifo", "lifo"} /\ pc' = pc /\ RafagasPositivas(procesos)) =>
             \A k \in Posiciones(resultados) :
                 ~Pendiente(resultados[k]) => resultados'[k] = resultados[k] ]_vars

\* fifo has completed three processes, with an idle-skip on the way.
C15_Witness ==
    /\ Terminado("fifo")
    /\ RafagasPositivas(procesos)
    /\ Len(resultados) = 3
    /\ ocioso > 0
    /\ \A k \in Posiciones(resultados) : ~Pendiente(resultados[k])


\* C16: round_robin is work-conserving on lists in any order: once the
\* admission loop has ended, every process that has arrived and has time
\* left is in the ready queue, so an idle tick is taken only when no
\* unfinished process has arrived.
C16_RRAprovechaCPU ==
    (/\ pc = "rr"
     /\ quantum > 0
     /\ Validos(procesos)
     /\ completados < Len(procesos)
     /\ ~RRLlegado(resultados, indice, reloj))
    => \A j \in 0..(Len(resultados) - 1) :
           (At(resultados, j).ti <= reloj /\ At(tiempos_restantes, j) > 0)
           => EnCola(j)


\* The runs of the process at list position k, as indices into orden.
Turnos(k) == { n \in 1..Len(orden) : orden[n] = k }

\* The total length of the runs in the set ns.
RECURSIVE SumaTurnos(_)
SumaTurnos(ns) ==
    IF ns = {} THEN 0
    ELSE LET n == CHOOSE x \in ns : TRUE
         IN  duraciones[n] + SumaTurnos(ns \ {n})

\* C17: in round_robin with quantum > 0 every slice is min(quantum,
\* remaining) long, at least 1; every slice of a process but its last is
\* exactly the quantum; the slices of a process add up to what it has
\* executed, its whole burst once finished; remaining stays in 0..burst; and
\* a finished process has been run exactly ceil(burst / quantum) times.
C17_TurnosExactos ==
    /\ [][ (pc = "rr" /\ quantum > 0 /\ orden' # orden) =>
             LET k == orden'[Len(orden')]
                 d == duraciones'[Len(duraciones')]
             IN  /\ k = Head(cola) + 1
                 /\ d = Min(quantum, tiempos_restantes[k])
                 /\ d >= 1
                 /\ tiempos_restantes'[k] = tiempos_restantes[k] - d
                 /\ reloj' = reloj + d ]_vars
    /\ [](( pc = "rr" /\ quantum > 0) =>
             /\ \A n \in 1..Len(orden) :
                   /\ duraciones[n] \in 1..quantum
                   /\ duraciones[n] < quantum =>
                         (/\ tiempos_restantes[orden[n]] = 0
                          /\ \A m \in Turnos(orden[n]) : m <= n)
             /\ \A k \in Posiciones(resultados) :
                   /\ tiempos_restantes[k] \in 0..resultados[k].t
                   /\ SumaTurnos(Turnos(k)) = resultados[k].t - tiempos_restantes[k]
                   /\ Veces(k) = Ceil(resultados[k].t - tiempos_restantes[k], quantum)
                   /\ ~Pendiente(resultados[k]) =>
                         (/\ tiempos_restantes[k] = 0
                          /\ SumaTurnos(Turnos(k)) = resultados[k].t
                          /\ Veces(k) = Ceil(resultados[k].t, quantum)))

\* The execution windows [tf - t, tf) of the finished records of res are
\* pairwise disjoint.
VentanasDisjuntas(res) ==
    \A i, j \in Posiciones(res) :
        (i # j /\ ~Pendiente(res[i]) /\ ~Pendiente(res[j])) =>
            \/ res[i].tf - res[i].t >= res[j].tf
            \/ res[j].tf - res[j].t >= res[i].tf

\* C18: in fifo and lifo the clock never decreases, and the execution
\* windows [completion - burst, completion) of two distinct processes never
\* overlap.
C18_UnaCPU ==
    /\ [][ (pc \in {"fifo", "lifo"} /\ pc' = pc) => reloj' >= reloj ]_vars
    /\ [](/\ pc \in {"fifo", "lifo"} => VentanasDisjuntas(resultados)
          /\ VentanasDisjuntas(fifo_resultados)
          /\ VentanasDisjuntas(lifo_resultados))

\* lifo has completed three processes, two of which had to wait.
C18_Witness ==
    /\ Terminado("lifo")
    /\ Len(resultados) = 3
    /\ \E i, j \in Posiciones(resultados) :
          i # j /\ resultados[i].E > 0 /\ resultados[j].E > 0

\* The quantum is at least the largest burst of the list.
QuantumCubreRafagas == \A k \in Posiciones(procesos) : quantum >= procesos[k].t

\* C19: for a list sorted by arrival and a quantum >= the largest burst,
\* round_robin gives every process the completion (and so the turnaround,
\* waiting and penalty index) that fifo gives it.
C19_RRComoFifo ==
    (/\ rr_resultados # <<>>
     /\ fifo_resultados # <<>>
     /\ Ordenada(procesos)
     /\ QuantumCubreRafagas)
    => rr_resultados = fifo_resultados

\* Both have returned on a sorted list of three processes, after idle time
\* (ticked one by one in round_robin, skipped in fifo) and with a process
\* that waited.
C19_Witness ==
    /\ rr_resultados # <<>>
    /\ fifo_resultados # <<>>
    /\ Ordenada(procesos)
    /\ QuantumCubreRafagas
    /\ Len(procesos) = 3
    /\ finales.rr[2] > 1
    /\ finales.fifo[2] > 1
    /\ \E k \in Posiciones(fifo_resultados) : fifo_resultados[k].E > 0

\* m is the largest completion in res.
EsUltimoFin(res, m) ==
    /\ \E k \in Posiciones(res) : res[k].tf = m
    /\ \A k \in Posiciones(res) : res[k].tf <= m

\* C20: on a list with arrival >= 0 and burst > 0, fifo and lifo end with
\* the same clock, which is the largest completion of each, and with the
\* same total idle time.
C20_FifoLifoMismoFinal ==
    (pc = "fin" /\ fifo_resultados # <<>> /\ Validos(procesos)) =>
        /\ finales.fifo = finales.lifo
        /\ EsUltimoFin(fifo_resultados, finales.fifo[1])
        /\ EsUltimoFin(lifo_resultados, finales.lifo[1])

\* Both have returned after idling, with different completions for some
\* process.
C20_Witness ==
    /\ pc = "fin"
    /\ fifo_resultados # <<>>
    /\ Validos(procesos)
    /\ finales.fifo[2] > 0
    /\ \E k \in Posiciones(fifo_resultados) :
          fifo_resultados[k].tf # lifo_resultados[k].tf

====
